---- MODULE Spec2Model ----
(***************************************************************************)
(* Model of section-generator.py: the catalog loader and analyzer          *)
(* (SectionTypeAnalyzer) and the artifact generator (SectionGenerator).    *)
(*                                                                         *)
(* Conventions.  A Python dict is a TLA+ function whose domain is the set  *)
(* of keys present.  A Python str that the code computes with (section     *)
(* types, ids, labels, defaults, descriptions) is a sequence of one        *)
(* character strings; enumerated tokens (setting kinds, categories,        *)
(* exception names, method names) and opaque texts are TLA+ strings.  A    *)
(* call that can raise evaluates to [ok |-> TRUE, val |-> v] or to         *)
(* [ok |-> FALSE, exc |-> name].                                           *)
(***************************************************************************)
EXTENDS Integers, Sequences, FiniteSets, TLC

VARIABLES config_file, analyzer, pc, request, outcome, raised_in,
          analysis, settings, schema, bundle, second_report,
          fs, written, args, exit_code, steps

vars == <<config_file, analyzer, pc, request, outcome, raised_in,
          analysis, settings, schema, bundle, second_report,
          fs, written, args, exit_code, steps>>

\* The state of a run of main: its parsed arguments, its exit code and the
\* steps it has taken.
main_vars == <<args, exit_code, steps>>

(***************************************************************************)
(* Python values                                                           *)
(***************************************************************************)
None == <<"None">>
PyFalse == <<"False">>
PyFifty == <<"50">>

EmptyDict == [k \in {} |-> None]

Get(d, k, dflt) == IF k \in DOMAIN d THEN d[k] ELSE dflt

HasValue(d, k, v) == k \in DOMAIN d /\ d[k] = v

Truthy(d, k) == k \in DOMAIN d /\ Len(d[k]) > 0

Ok(v) == [ok |-> TRUE, val |-> v]

Raise(e) == [ok |-> FALSE, exc |-> e]

PyDict(d) == [py |-> "dict", items |-> d]

PyList(l) == [py |-> "list", elems |-> l]

PyNone == [py |-> "NoneType"]

(***************************************************************************)
(* str.replace('_', ' ') and str.title()                                   *)
(***************************************************************************)
LowerCase == <<"a","b","c","d","e","f","g","h","i","j","k","l","m",
               "n","o","p","q","r","s","t","u","v","w","x","y","z">>

UpperCase == <<"A","B","C","D","E","F","G","H","I","J","K","L","M",
               "N","O","P","Q","R","S","T","U","V","W","X","Y","Z">>

IsLower(c) == \E i \in DOMAIN LowerCase : LowerCase[i] = c

IsUpper(c) == \E i \in DOMAIN UpperCase : UpperCase[i] = c

IsCased(c) == IsLower(c) \/ IsUpper(c)

ToUpper(c) == IF IsLower(c)
              THEN UpperCase[CHOOSE i \in DOMAIN LowerCase : LowerCase[i] = c]
              ELSE c

ToLower(c) == IF IsUpper(c)
              THEN LowerCase[CHOOSE i \in DOMAIN UpperCase : UpperCase[i] = c]
              ELSE c

ReplaceUnderscore(s) == [i \in 1..Len(s) |-> IF s[i] = "_" THEN " " ELSE s[i]]

Title(s) == [i \in 1..Len(s) |->
               IF i > 1 /\ IsCased(s[i-1]) THEN ToLower(s[i]) ELSE ToUpper(s[i])]

(***************************************************************************)
(* String literals of the source                                           *)
(***************************************************************************)
Hero == <<"h","e","r","o">>
Features == <<"f","e","a","t","u","r","e","s">>
Testimonials == <<"t","e","s","t","i","m","o","n","i","a","l","s">>
Gallery == <<"g","a","l","l","e","r","y">>
Cta == <<"c","t","a">>
Contact == <<"c","o","n","t","a","c","t">>
Newsletter == <<"n","e","w","s","l","e","t","t","e","r">>
Stats == <<"s","t","a","t","s">>
Widget == <<"w","i","d","g","e","t">>

S_setting == <<"s","e","t","t","i","n","g">>
S_heading == <<"h","e","a","d","i","n","g">>
S_background_color == <<"b","a","c","k","g","r","o","u","n","d","_","c","o","l","o","r">>
S_text_color == <<"t","e","x","t","_","c","o","l","o","r">>
S_animation == <<"a","n","i","m","a","t","i","o","n">>
S_SectionHeading == <<"S","e","c","t","i","o","n"," ","H","e","a","d","i","n","g">>
S_BackgroundColor == <<"B","a","c","k","g","r","o","u","n","d"," ","C","o","l","o","r">>
S_TextColor == <<"T","e","x","t"," ","C","o","l","o","r">>
S_AnimationEffect == <<"A","n","i","m","a","t","i","o","n"," ","E","f","f","e","c","t">>
S_Custom_ == <<"C","u","s","t","o","m"," ">>
S__section == <<" ","s","e","c","t","i","o","n">>
S__Section == <<" ","S","e","c","t","i","o","n">>
S_DefaultText == <<"D","e","f","a","u","l","t"," ","t","e","x","t">>
S_DefaultDescription == <<"D","e","f","a","u","l","t"," ","d","e","s","c","r","i","p","t","i","o","n">>
S_DefaultValue == <<"D","e","f","a","u","l","t"," ","v","a","l","u","e">>
S_Black == <<"#","0","0","0","0","0","0">>
S_White == <<"#","f","f","f","f","f","f">>
S_Slash == <<"/">>
S_fadeIn == <<"f","a","d","e","I","n">>
S_none == <<"n","o","n","e">>
S_OptNone == <<"N","o","n","e">>
S_FadeIn == <<"F","a","d","e"," ","I","n">>

(***************************************************************************)
(* SectionTypeAnalyzer                                                     *)
(***************************************************************************)
_load_intelligence_config(file) ==
  CASE file.state = "missing" -> PyDict([sectionTypes |-> PyDict(EmptyDict),
                                         intelligenceRules |-> PyDict(EmptyDict)])
    [] file.state = "invalid_json" -> PyDict([sectionTypes |-> PyDict(EmptyDict),
                                              intelligenceRules |-> PyDict(EmptyDict)])
    [] file.state = "json" -> file.doc

AnalyzerInit(file) ==
  LET loaded == _load_intelligence_config(file)
  IN IF loaded.py # "dict"
     THEN Raise("AttributeError")
     ELSE Ok([intelligence_config |-> loaded,
              section_types |-> Get(loaded.items, "sectionTypes", PyDict(EmptyDict))])

_get_default_for_type(setting_type) ==
  LET defaults == [text |-> S_DefaultText,
                   textarea |-> S_DefaultDescription,
                   color |-> S_Black,
                   image_picker |-> None,
                   url |-> S_Slash,
                   checkbox |-> PyFalse,
                   range |-> PyFifty,
                   select |-> <<>>]
  IN Get(defaults, setting_type, S_DefaultValue)

_normalize_setting(setting) ==
  IF "id" \notin DOMAIN setting
  THEN Raise("KeyError")
  ELSE
    LET normalized ==
          [type |-> Get(setting, "type", "text"),
           id |-> Get(setting, "id", Get(setting, "name", S_setting)),
           label |-> Get(setting, "label", Title(ReplaceUnderscore(setting["id"]))),
           default |-> Get(setting, "default",
                           _get_default_for_type(Get(setting, "type", "text"))),
           required |-> Get(setting, "required", FALSE),
           info |-> Get(setting, "info", <<>>),
           category |-> Get(setting, "category", "recommended")]
        options == IF HasValue(setting, "type", "select") /\ "options" \in DOMAIN setting
                   THEN [options |-> setting["options"]]
                   ELSE EmptyDict
        range == IF HasValue(setting, "type", "range")
                 THEN [min |-> Get(setting, "min", 0),
                       max |-> Get(setting, "max", 100),
                       unit |-> Get(setting, "unit", <<>>)]
                 ELSE EmptyDict
        validation == IF "validation" \in DOMAIN setting
                      THEN [validation |-> setting["validation"]]
                      ELSE EmptyDict
    IN Ok(validation @@ range @@ options @@ normalized)

NormalizeAll(raws) ==
  IF \E i \in DOMAIN raws : ~_normalize_setting(raws[i]).ok
  THEN Raise("KeyError")
  ELSE Ok([i \in DOMAIN raws |-> _normalize_setting(raws[i]).val])

_organize_settings(section_config) ==
  LET essential == NormalizeAll(Get(section_config, "essentialSettings", <<>>))
      recommended == NormalizeAll(Get(section_config, "recommendedSettings", <<>>))
      advanced == NormalizeAll(Get(section_config, "advancedSettings", <<>>))
  IN IF ~essential.ok THEN essential
     ELSE IF ~recommended.ok THEN recommended
     ELSE IF ~advanced.ok THEN advanced
     ELSE Ok([essential |-> essential.val,
              recommended |-> recommended.val,
              advanced |-> advanced.val])

Min(a, b) == IF a < b THEN a ELSE b

\* Mutant of _calculate_intelligence_score: the advanced component is five
\* points per advanced setting with no cap at 20.
ScoreWithoutAdvancedCap(section_config) ==
  LET advanced_count == Len(Get(section_config, "advancedSettings", <<>>))
      score == (IF Truthy(section_config, "essentialSettings") THEN 30 ELSE 0)
             + (IF Truthy(section_config, "recommendedSettings") THEN 25 ELSE 0)
             + (IF advanced_count > 0 THEN advanced_count * 5 ELSE 0)
             + (IF Truthy(section_config, "suggestedBlocks") THEN 15 ELSE 0)
             + (IF Truthy(section_config, "commonUseCases") THEN 10 ELSE 0)
  IN Min(score, 100)

_calculate_intelligence_score(section_config) ==
  LET advanced_count == Len(Get(section_config, "advancedSettings", <<>>))
      score == (IF Truthy(section_config, "essentialSettings") THEN 30 ELSE 0)
             + (IF Truthy(section_config, "recommendedSettings") THEN 25 ELSE 0)
             + (IF advanced_count > 0 THEN Min(advanced_count * 5, 20) ELSE 0)
             + (IF Truthy(section_config, "suggestedBlocks") THEN 15 ELSE 0)
             + (IF Truthy(section_config, "commonUseCases") THEN 10 ELSE 0)
  IN Min(score, 100)

_get_optimization_tips(section_type) ==
  CASE section_type = Hero ->
         <<"Use high-quality background images for better visual impact",
           "Keep heading text concise and compelling",
           "Consider adding a secondary CTA button for better conversion">>
    [] section_type = Features ->
         <<"Use consistent icon styles across all features",
           "Limit features to 3-6 for better readability",
           "Add hover effects to increase interactivity">>
    [] section_type = Testimonials ->
         <<"Include customer photos for authenticity",
           "Use varied testimonial lengths for visual interest",
           "Consider adding company logos for B2B credibility">>
    [] section_type = Gallery ->
         <<"Optimize images for web to improve loading speed",
           "Use consistent aspect ratios for better grid layout",
           "Add alt text for better accessibility">>
    [] OTHER -> <<>>

\* Lines 210-245: the description, raw lists and blocks of the generic dict.
GenericProfile(section_type) ==
  [description |-> S_Custom_ \o section_type \o S__section,
   essentialSettings |->
     << [id |-> S_heading, type |-> "text", label |-> S_SectionHeading,
         default |-> Title(section_type) \o S__Section] >>,
   recommendedSettings |->
     << [id |-> S_background_color, type |-> "color",
         label |-> S_BackgroundColor, default |-> S_White],
        [id |-> S_text_color, type |-> "color",
         label |-> S_TextColor, default |-> S_Black] >>,
   advancedSettings |->
     << [id |-> S_animation, type |-> "select", label |-> S_AnimationEffect,
         options |-> << [value |-> S_none, label |-> S_OptNone],
                        [value |-> S_fadeIn, label |-> S_FadeIn] >>,
         default |-> S_fadeIn] >>,
   suggestedBlocks |-> <<>>]

\* Mutant of _get_generic_config: the score is computed by the scoring rule
\* of the known-type path instead of being the literal 25.
GenericConfigScoredByRule(section_type) ==
  GenericProfile(section_type)
    @@ [intelligent_settings |->
          [essential |-> <<>>, recommended |-> <<>>, advanced |-> <<>>],
        intelligence_score |->
          _calculate_intelligence_score(GenericProfile(section_type)),
        optimization_tips |->
          <<"Consider adding more specific settings for better customization">>]

_get_generic_config(section_type) ==
  GenericProfile(section_type)
    @@ [intelligent_settings |->
          [essential |-> <<>>, recommended |-> <<>>, advanced |-> <<>>],
        intelligence_score |-> 25,
        optimization_tips |->
          <<"Consider adding more specific settings for better customization">>]

\* Mutant of DictCopy: no copy is taken, the name is bound to the catalog's
\* own entry.
DictAlias(d) == [shared |-> TRUE, items |-> d]

\* dict.copy() (line 65): a new dict with the same items, not shared with the
\* catalog.
DictCopy(d) == [shared |-> FALSE, items |-> d]

\* Line 71: section_config.update(...) changes the dict that section_config
\* names; the catalog's entry changes with it when they are one object.
EntryAfterUpdate(entry, section_config, updated) ==
  IF section_config.shared THEN updated ELSE entry

\* Lines 71-80: the updated dict that is returned, and the catalog the call
\* leaves behind.
UpdateAndReturn(section_types, section_type, section_config, updated) ==
  Ok(updated)
    @@ [section_types |->
          [section_types EXCEPT
             ![section_type] = EntryAfterUpdate(@, section_config, updated)]]

UpdateWith(section_type, section_config, organized_settings) ==
  [intelligent_settings |-> organized_settings,
   suggested_settings |-> organized_settings.essential
                            \o organized_settings.recommended,
   advanced_settings |-> organized_settings.advanced,
   suggested_blocks |-> Get(section_config, "suggestedBlocks", <<>>),
   intelligence_score |-> _calculate_intelligence_score(section_config),
   optimization_tips |-> _get_optimization_tips(section_type)]
    @@ section_config

Organized(section_types, section_type, section_config, organized_settings) ==
  IF ~organized_settings.ok
  THEN organized_settings @@ [section_types |-> section_types]
  ELSE UpdateAndReturn(section_types, section_type, section_config,
                       UpdateWith(section_type, section_config.items,
                                  organized_settings.val))

ConfigFromCopy(section_types, section_type, section_config) ==
  Organized(section_types, section_type, section_config,
            _organize_settings(section_config.items))

_get_intelligent_config(section_types, section_type) ==
  ConfigFromCopy(section_types, section_type,
                 DictCopy(section_types[section_type]))

Contains(section_types, section_type) ==
  CASE section_types.py = "dict" -> Ok(section_type \in DOMAIN section_types.items)
    [] section_types.py = "list" ->
         Ok(\E i \in DOMAIN section_types.elems : section_types.elems[i] = section_type)
    [] OTHER -> Raise("TypeError")

\* The result of a call on the catalog mapping, with the catalog object the
\* call leaves behind.
OnCatalog(found) == [found EXCEPT !.section_types = PyDict(@)]

analyze_section_type(section_types, section_type) ==
  LET known == Contains(section_types, section_type)
  IN IF ~known.ok THEN known @@ [section_types |-> section_types]
     ELSE IF known.val
          THEN IF section_types.py = "dict"
               THEN OnCatalog(_get_intelligent_config(section_types.items,
                                                      section_type))
               ELSE Raise("TypeError") @@ [section_types |-> section_types]
          ELSE Ok(_get_generic_config(section_type))
                 @@ [section_types |-> section_types]

(***************************************************************************)
(* SectionGenerator                                                        *)
(***************************************************************************)
SectionGeneratorMethods ==
  {"__init__", "generate_section", "_generate_liquid",
   "_generate_intelligent_schema", "_get_preset_defaults",
   "_generate_template_content", "_generate_hero_template",
   "_generate_features_template", "_generate_testimonials_template",
   "_generate_generic_template", "_generate_css", "_generate_hero_css",
   "_generate_features_css", "_generate_testimonials_css",
   "_generate_generic_css", "_generate_js", "_generate_hero_js",
   "_generate_testimonials_js", "_generate_generic_js", "save_section"}

\* The text each generator method returns, named by its first line.
MethodText ==
  [_generate_hero_template |-> "<section class=\"hero-section animate-on-scroll\"",
   _generate_features_template |-> "<section class=\"features-section animate-on-scroll\">",
   _generate_testimonials_template |-> "<section class=\"testimonials-section animate-on-scroll\">",
   _generate_generic_template |-> "<section class=\"custom-section animate-on-scroll\">",
   _generate_hero_css |-> ".hero-section {",
   _generate_features_css |-> ".features-section {",
   _generate_testimonials_css |-> ".testimonials-section {",
   _generate_generic_css |-> ".custom-section {",
   _generate_hero_js |-> "// Hero Section JavaScript",
   _generate_testimonials_js |-> "// Testimonials Section JavaScript",
   _generate_generic_js |-> "// Generic Section JavaScript"]

\* Evaluating self.<name> for every value of a dict literal: an attribute
\* the class does not define raises AttributeError before any lookup.
BoundMethods(table) ==
  IF \E k \in DOMAIN table : table[k] \notin SectionGeneratorMethods
  THEN Raise("AttributeError")
  ELSE Ok(table)

Dispatch(table, fallback, section_type) ==
  LET bound == BoundMethods(table)
  IN IF ~bound.ok THEN bound
     ELSE Ok(MethodText[Get(bound.val, section_type, fallback)])

_generate_template_content(config) ==
  LET templates == (Hero :> "_generate_hero_template")
                @@ (Features :> "_generate_features_template")
                @@ (Testimonials :> "_generate_testimonials_template")
                @@ (Gallery :> "_generate_gallery_template")
                @@ (Cta :> "_generate_cta_template")
                @@ (Contact :> "_generate_contact_template")
                @@ (Newsletter :> "_generate_newsletter_template")
                @@ (Stats :> "_generate_stats_template")
  IN Dispatch(templates, "_generate_generic_template", config.type)

_generate_css(config) ==
  LET css_templates == (Hero :> "_generate_hero_css")
                    @@ (Features :> "_generate_features_css")
                    @@ (Testimonials :> "_generate_testimonials_css")
                    @@ (Gallery :> "_generate_gallery_css")
                    @@ (Cta :> "_generate_cta_css")
                    @@ (Contact :> "_generate_contact_css")
                    @@ (Newsletter :> "_generate_newsletter_css")
                    @@ (Stats :> "_generate_stats_css")
  IN Dispatch(css_templates, "_generate_generic_css", config.type)

_generate_js(config) ==
  LET js_templates == (Hero :> "_generate_hero_js")
                   @@ (Testimonials :> "_generate_testimonials_js")
                   @@ (Gallery :> "_generate_gallery_js")
                   @@ (Contact :> "_generate_contact_js")
                   @@ (Newsletter :> "_generate_newsletter_js")
                   @@ (Stats :> "_generate_stats_js")
  IN Dispatch(js_templates, "_generate_generic_js", config.type)

RECURSIVE PresetFold(_, _)
PresetFold(rest, defaults) ==
  IF Len(rest) = 0 THEN defaults
  ELSE LET setting == Head(rest)
       IN PresetFold(Tail(rest),
                     IF "default" \in DOMAIN setting /\ setting["default"] # None
                     THEN (setting["id"] :> setting["default"]) @@ defaults
                     ELSE defaults)

\* Mutant of _get_preset_defaults: the test "is not None" is dropped, so a
\* null default is collected too.
PresetDefaultsKeepNull(working) ==
  [k \in { working[i]["id"] : i \in DOMAIN working } |->
     LET last == CHOOSE i \in DOMAIN working :
                   /\ working[i]["id"] = k
                   /\ \A j \in DOMAIN working : working[j]["id"] = k => j <= i
     IN working[last]["default"]]

_get_preset_defaults(working) == PresetFold(working, EmptyDict)

InCategory(working, category) ==
  SelectSeq(working, LAMBDA s : HasValue(s, "category", category))

_generate_intelligent_schema(config) ==
  LET essential_settings == InCategory(config.settings, "essential")
      recommended_settings == InCategory(config.settings, "recommended")
      advanced_settings == InCategory(config.settings, "advanced")
  IN [name |-> config.name,
      tag |-> <<"s","e","c","t","i","o","n","-">> \o config.type,
      class |-> <<"s","e","c","t","i","o","n","-">> \o config.type,
      settings |-> IF Len(advanced_settings) > 0
                   THEN (essential_settings \o recommended_settings) \o advanced_settings
                   ELSE essential_settings \o recommended_settings,
      blocks |-> config.blocks,
      presets |-> << [name |-> config.name,
                      category |-> "Custom Sections",
                      settings |-> _get_preset_defaults(config.settings)] >>]

_generate_liquid(config) ==
  LET template_content == _generate_template_content(config)
  IN IF ~template_content.ok THEN template_content
     ELSE Ok([intelligence_info |->
                [type |-> config.type,
                 score |-> Get(config.intelligence_config, "intelligence_score", 0),
                 total |-> Len(config.settings),
                 essential |-> Len(InCategory(config.settings, "essential")),
                 blocks |-> Len(config.blocks)],
              schema |-> _generate_intelligent_schema(config),
              data_section_type |-> config.type,
              template_content |-> template_content.val])

\* Mutant of WorkingSettings: the advanced list is appended whatever
\* use_advanced says.
WorkingSettingsAlwaysAdvanced(report, use_advanced) ==
  IF "intelligent_settings" \in DOMAIN report
  THEN LET intelligent_settings == report["intelligent_settings"]
       IN (intelligent_settings.essential \o intelligent_settings.recommended)
            \o intelligent_settings.advanced
  ELSE Get(report, "suggested_settings", <<>>)

\* Lines 272-281: the working set of settings.
WorkingSettings(report, use_advanced) ==
  IF use_advanced /\ "intelligent_settings" \in DOMAIN report
  THEN LET intelligent_settings == report["intelligent_settings"]
       IN (intelligent_settings.essential \o intelligent_settings.recommended)
            \o (IF use_advanced THEN intelligent_settings.advanced ELSE <<>>)
  ELSE Get(report, "suggested_settings", <<>>)

\* Lines 268-290: the SectionConfig built from a request and a report.
BuildConfig(req, report) ==
  [name |-> req.name,
   type |-> req.type,
   description |-> IF Len(req.description) = 0
                   THEN Get(report, "description",
                            S_Custom_ \o req.type \o S__section)
                   ELSE req.description,
   settings |-> WorkingSettings(report, req.use_advanced),
   blocks |-> Get(report, "suggested_blocks", <<>>),
   presets |-> <<>>,
   intelligence_config |-> report]

\* Lines 293-297: the three artifacts, the first failure ending the call.
RenderArtifacts(config) ==
  LET liquid_content == _generate_liquid(config)
      css_content == _generate_css(config)
      js_content == _generate_js(config)
  IN IF ~liquid_content.ok
     THEN [result |-> liquid_content, raised_in |-> "_generate_template_content"]
     ELSE IF ~css_content.ok
     THEN [result |-> css_content, raised_in |-> "_generate_css"]
     ELSE IF ~js_content.ok
     THEN [result |-> js_content, raised_in |-> "_generate_js"]
     ELSE [result |-> Ok([liquid_content |-> liquid_content.val,
                          css_content |-> css_content.val,
                          js_content |-> js_content.val]),
           raised_in |-> "nowhere"]

\* Lines 283-297, with the values the call computed on the way: the working
\* set (line 281) and the schema (line 303).
GenerateFromConfig(config, section_types) ==
  RenderArtifacts(config)
    @@ [section_types |-> section_types,
        analysis |-> config.intelligence_config,
        settings |-> config.settings,
        schema |-> _generate_intelligent_schema(config)]

GenerateFromReport(req, report) ==
  IF ~report.ok
  THEN [result |-> report, raised_in |-> "analyze_section_type",
        section_types |-> report.section_types,
        analysis |-> EmptyDict, settings |-> <<>>, schema |-> EmptyDict]
  ELSE GenerateFromConfig(BuildConfig(req, report.val), report.section_types)

generate_section(section_types, req) ==
  GenerateFromReport(req, analyze_section_type(section_types, req.type))

\* Mutant of valid_types: the type of the model that is outside the
\* enumeration passes validation too.
ValidTypesAndWidget ==
  {Hero, Features, Testimonials, Gallery, Cta, Contact, Newsletter, Stats,
   Widget}

\* Line 915.
valid_types ==
  {Hero, Features, Testimonials, Gallery, Cta, Contact, Newsletter, Stats}

S_DotLiquid == <<".","l","i","q","u","i","d">>
S_DotCss == <<".","c","s","s">>
S_DotJs == <<".","j","s">>

\* Line 862: Path.mkdir(exist_ok=True) of theme_path / "sections", without
\* parents=True: the parent has to exist, an existing directory is accepted.
Mkdir(files) ==
  IF ~files.theme_path
  THEN Raise("FileNotFoundError")
  ELSE Ok([files EXCEPT !.sections_dir = TRUE])

\* with open(file, 'w') as f: f.write(content), in the sections directory.
WriteFile(files, file, content) ==
  [files EXCEPT !.sections = (file :> content) @@ @]

\* Lines 865-878: the template file, the stylesheet file, and the script
\* file when js_content is not empty.
WriteSection(files, generated_section, section_name) ==
  LET liquid_file == section_name \o S_DotLiquid
      css_file == section_name \o S_DotCss
      js_file == section_name \o S_DotJs
      saved == WriteFile(WriteFile(files, liquid_file,
                                   generated_section["liquid_content"]),
                         css_file, generated_section["css_content"])
  IN IF generated_section["js_content"] # ""
     THEN [files |-> WriteFile(saved, js_file, generated_section["js_content"]),
           written |-> <<liquid_file, css_file, js_file>>]
     ELSE [files |-> saved, written |-> <<liquid_file, css_file>>]

SaveInto(files, sections_dir, generated_section, section_name) ==
  IF ~sections_dir.ok
  THEN [result |-> sections_dir, files |-> files, written |-> <<>>]
  ELSE [result |-> Ok(None)]
         @@ WriteSection(sections_dir.val, generated_section, section_name)

save_section(files, generated_section, section_name) ==
  SaveInto(files, Mkdir(files), generated_section, section_name)

(***************************************************************************)
(* Inputs: catalog documents and requests                                  *)
(***************************************************************************)
MaxSettings == 3
MaxAdvanced == 5

\* Raw setting specifications a catalog may hold.
RawFull == [id |-> <<"a","_","b">>, type |-> "text", label |-> <<"L">>,
            default |-> <<"x">>, category |-> "essential"]
RawBare == [id |-> <<"a","_","b">>, type |-> "color"]
RawRange == [id |-> <<"e","_","F","g">>, type |-> "range", default |-> None,
             max |-> 10]
RawAdvanced == [id |-> <<"c">>, type |-> "select", default |-> <<"v">>,
                options |-> << [value |-> S_none, label |-> S_OptNone] >>,
                category |-> "advanced"]
RawLayout == [id |-> <<"d">>, type |-> "image_picker", category |-> "layout"]
RawNoId == [name |-> <<"n">>, label |-> <<"L">>]

RawPool == {RawFull, RawBare, RawRange, RawAdvanced, RawLayout, RawNoId}

RequestTypes == {Hero, Features, Widget}
CatalogTypes == {Hero, Widget}
SectionNames == {<<"s">>}
Descriptions == {<<>>, <<"d">>}

OptKey(k, v, present) == IF present THEN (k :> v) ELSE EmptyDict

\* Profiles whose three raw lists are the consecutive segments of one
\* sequence of at most MaxSettings raw specifications.
SettingProfiles ==
  { [essentialSettings |-> SubSeq(raws, 1, i),
     recommendedSettings |-> SubSeq(raws, i + 1, j),
     advancedSettings |-> SubSeq(raws, j + 1, Len(raws))] :
      <<raws, i, j>> \in
        { <<r, a, b>> \in (UNION { [1..n -> RawPool] : n \in 0..MaxSettings })
                            \X (0..MaxSettings) \X (0..MaxSettings) :
            a <= b /\ b <= Len(r) } }

Copies(n, x) == [i \in 1..n |-> x]

ListChoices(x) == {[present |-> FALSE, val |-> <<>>],
                   [present |-> TRUE, val |-> <<>>],
                   [present |-> TRUE, val |-> <<x>>]}

\* Profiles that vary which lists are present, empty or filled, and the
\* number of advanced settings, up to MaxAdvanced.
RichnessProfiles ==
  { [description |-> <<"p">>]
      @@ OptKey("essentialSettings", e.val, e.present)
      @@ OptKey("recommendedSettings", r.val, r.present)
      @@ OptKey("advancedSettings", Copies(n, RawAdvanced), n > 0)
      @@ OptKey("suggestedBlocks", b.val, b.present)
      @@ OptKey("commonUseCases", u.val, u.present) :
      <<e, r, n, b, u>> \in ListChoices(RawFull) \X ListChoices(RawBare)
                              \X (0..MaxAdvanced)
                              \X ListChoices([type |-> "item", name |-> "Item"])
                              \X ListChoices("Homepage") }

Profiles == SettingProfiles \cup RichnessProfiles

WellFormedDocs ==
  { PyDict([sectionTypes |-> PyDict(t :> p),
            intelligenceRules |-> PyDict(EmptyDict)]) :
      <<t, p>> \in CatalogTypes \X Profiles }

\* Documents that parse but are not a mapping with a sectionTypes mapping.
MalformedDocs ==
  { PyList(<<>>), PyNone,
    PyDict([intelligenceRules |-> PyDict(EmptyDict)]),
    PyDict([sectionTypes |-> PyNone]),
    PyDict([sectionTypes |-> PyList(<<Hero>>)]),
    PyDict([sectionTypes |-> PyList(<<>>)]),
    PyDict([sectionTypes |-> PyDict(EmptyDict)]) }

ConfigFiles ==
  { [state |-> "missing", doc |-> PyNone],
    [state |-> "invalid_json", doc |-> PyNone] }
  \cup { [state |-> "json", doc |-> d] : d \in WellFormedDocs \cup MalformedDocs }

\* The theme path on disk: absent, a directory without a sections
\* directory, or a directory with an empty sections directory.
NoFiles == [f \in {} |-> ""]

FileSystems ==
  { [theme_path |-> FALSE, sections_dir |-> FALSE, sections |-> NoFiles],
    [theme_path |-> TRUE, sections_dir |-> FALSE, sections |-> NoFiles],
    [theme_path |-> TRUE, sections_dir |-> TRUE, sections |-> NoFiles] }

ThemeWithoutSections ==
  [theme_path |-> TRUE, sections_dir |-> FALSE, sections |-> NoFiles]

\* Bundles handed to save_section: with and without a behavior script.
Bundles ==
  { [liquid_content |-> l, css_content |-> "css", js_content |-> j] :
      l \in {"liquid 1", "liquid 2"}, j \in {"", "js"} }

\* Parsed command lines (lines 905-912); without --description the
\* description is None, which is as false as the empty string.
NoArgs == [name |-> <<>>, type |-> <<>>, description |-> <<>>,
           advanced |-> TRUE]

CliArgs ==
  { [name |-> n, type |-> t, description |-> d, advanced |-> a] :
      n \in SectionNames, t \in RequestTypes, d \in Descriptions,
      a \in BOOLEAN }

\* Catalogs for runs of main: a single profile with at most one raw
\* specification, besides the missing, unparsable and malformed sources.
SmallProfiles ==
  { p \in SettingProfiles :
      Len(p.essentialSettings) + Len(p.recommendedSettings)
        + Len(p.advancedSettings) <= 1 }

MainConfigFiles ==
  { [state |-> "missing", doc |-> PyNone],
    [state |-> "invalid_json", doc |-> PyNone] }
  \cup { [state |-> "json", doc |-> d] : d \in MalformedDocs }
  \cup { [state |-> "json",
          doc |-> PyDict([sectionTypes |-> PyDict(t :> p),
                          intelligenceRules |-> PyDict(EmptyDict)])] :
            <<t, p>> \in CatalogTypes \X SmallProfiles }

(***************************************************************************)
(* State machine                                                           *)
(***************************************************************************)
NoRequest == [op |-> "none", name |-> <<>>, type |-> <<>>,
              description |-> <<>>, use_advanced |-> FALSE]

\* Nothing has been constructed or called yet.
Fresh ==
  /\ analyzer = EmptyDict
  /\ pc = "start"
  /\ request = NoRequest
  /\ outcome = "none"
  /\ raised_in = "nowhere"
  /\ analysis = EmptyDict
  /\ settings = <<>>
  /\ schema = EmptyDict
  /\ bundle = EmptyDict
  /\ second_report = EmptyDict
  /\ written = <<>>
  /\ exit_code = -1
  /\ steps = <<>>

\* Sessions of callers of the analyzer and of generate_section.
Init ==
  /\ config_file \in ConfigFiles
  /\ fs = ThemeWithoutSections
  /\ args = NoArgs
  /\ Fresh

\* SectionGenerator.__init__, which constructs the analyzer and loads the
\* catalog.
Constructed(built) ==
  /\ analyzer' = IF built.ok THEN built.val ELSE EmptyDict
  /\ pc' = IF built.ok THEN "idle" ELSE "aborted"
  /\ outcome' = IF built.ok THEN "ok" ELSE built.exc
  /\ raised_in' = IF built.ok THEN "nowhere" ELSE "__init__"

Construct ==
  /\ UNCHANGED main_vars
  /\ pc = "start"
  /\ Constructed(AnalyzerInit(config_file))
  /\ request' = [NoRequest EXCEPT !.op = "construct"]
  /\ UNCHANGED <<config_file, analysis, settings, schema, bundle,
                 second_report, fs, written>>

\* A caller's analyzer.analyze_section_type(section_type).
Analyzed(report) ==
  /\ analyzer' = [analyzer EXCEPT !.section_types = report.section_types]
  /\ outcome' = IF report.ok THEN "ok" ELSE report.exc
  /\ raised_in' = IF report.ok THEN "nowhere" ELSE "analyze_section_type"
  /\ analysis' = IF report.ok THEN report.val ELSE EmptyDict

Analyze(section_type) ==
  /\ UNCHANGED main_vars
  /\ pc = "idle"
  /\ Analyzed(analyze_section_type(analyzer.section_types, section_type))
  /\ request' = [NoRequest EXCEPT !.op = "analyze", !.type = section_type]
  /\ pc' = "returned"
  /\ settings' = <<>>
  /\ schema' = EmptyDict
  /\ bundle' = EmptyDict
  /\ UNCHANGED <<config_file, second_report, fs, written>>

\* The caller keeps the report it has just received and calls
\* analyzer.analyze_section_type again with the same type.
AnalyzedAgain(report) ==
  /\ analyzer' = [analyzer EXCEPT !.section_types = report.section_types]
  /\ outcome' = IF report.ok THEN "ok" ELSE report.exc
  /\ raised_in' = IF report.ok THEN "nowhere" ELSE "analyze_section_type"
  /\ second_report' = IF report.ok THEN report.val ELSE EmptyDict

AnalyzeAgain ==
  /\ UNCHANGED main_vars
  /\ pc = "returned"
  /\ request.op = "analyze"
  /\ outcome = "ok"
  /\ AnalyzedAgain(analyze_section_type(analyzer.section_types, request.type))
  /\ pc' = "repeated"
  /\ UNCHANGED <<config_file, request, analysis, settings, schema, bundle,
                 fs, written>>

\* A caller's generator.generate_section(name, type, description, use_advanced).
Generated(req, done) ==
  /\ analyzer' = [analyzer EXCEPT !.section_types = done.section_types]
  /\ request' = req
  /\ outcome' = IF done.result.ok THEN "ok" ELSE done.result.exc
  /\ raised_in' = done.raised_in
  /\ analysis' = done.analysis
  /\ settings' = done.settings
  /\ schema' = done.schema
  /\ bundle' = IF done.result.ok THEN done.result.val ELSE EmptyDict

GenerateRequest(section_name, section_type, description, use_advanced) ==
  [op |-> "generate", name |-> section_name, type |-> section_type,
   description |-> description, use_advanced |-> use_advanced]

GenerateWith(req) ==
  Generated(req, generate_section(analyzer.section_types, req))

GenerateSection(section_name, section_type, description, use_advanced) ==
  /\ UNCHANGED main_vars
  /\ pc = "idle"
  /\ GenerateWith(GenerateRequest(section_name, section_type, description,
                                  use_advanced))
  /\ pc' = "returned"
  /\ UNCHANGED <<config_file, second_report, fs, written>>

\* A caller's generator.save_section(generated_section, section_name).
Saved(done) ==
  /\ outcome' = IF done.result.ok THEN "ok" ELSE done.result.exc
  /\ raised_in' = IF done.result.ok THEN "nowhere" ELSE "save_section"
  /\ fs' = done.files
  /\ written' = done.written

SaveSection(generated_section, section_name) ==
  /\ UNCHANGED main_vars
  /\ pc = "idle"
  /\ Saved(save_section(fs, generated_section, section_name))
  /\ request' = [NoRequest EXCEPT !.op = "save", !.name = section_name]
  /\ bundle' = generated_section
  /\ pc' = "returned"
  /\ UNCHANGED <<config_file, analyzer, analysis, settings, schema,
                 second_report>>

\* The caller has taken the value or the exception of its call; the analyzer
\* and the generator keep nothing of it.
Return ==
  /\ UNCHANGED main_vars
  /\ pc \in {"returned", "repeated"}
  /\ pc' = "idle"
  /\ request' = NoRequest
  /\ outcome' = "none"
  /\ raised_in' = "nowhere"
  /\ analysis' = EmptyDict
  /\ settings' = <<>>
  /\ schema' = EmptyDict
  /\ bundle' = EmptyDict
  /\ second_report' = EmptyDict
  /\ written' = <<>>
  /\ UNCHANGED <<config_file, analyzer, fs>>

Next ==
  \/ Construct
  \/ \E t \in RequestTypes : Analyze(t)
  \/ AnalyzeAgain
  \/ \E n \in SectionNames, t \in RequestTypes, d \in Descriptions, a \in BOOLEAN :
       GenerateSection(n, t, d, a)
  \/ Return

Spec == Init /\ [][Next]_vars

(***************************************************************************)
(* main: one run of the command entry point                                *)
(***************************************************************************)
\* Lines 914-918: the type is validated before anything is constructed.
MainValidate ==
  /\ pc = "start"
  /\ steps' = Append(steps, "validate")
  /\ pc' = IF args.type \in valid_types THEN "validated" ELSE "exited"
  /\ exit_code' = IF args.type \in valid_types THEN exit_code ELSE 1
  /\ UNCHANGED <<config_file, analyzer, request, outcome, raised_in, analysis,
                 settings, schema, bundle, second_report, fs, written, args>>

\* Line 920, outside the try block: an exception of the constructor leaves
\* main unhandled.
MainConstructed(built) ==
  /\ analyzer' = IF built.ok THEN built.val ELSE EmptyDict
  /\ pc' = IF built.ok THEN "constructed" ELSE "crashed"
  /\ outcome' = IF built.ok THEN "ok" ELSE built.exc
  /\ raised_in' = IF built.ok THEN "nowhere" ELSE "__init__"

MainConstruct ==
  /\ pc = "validated"
  /\ MainConstructed(AnalyzerInit(config_file))
  /\ steps' = Append(steps, "construct")
  /\ UNCHANGED <<config_file, request, analysis, settings, schema, bundle,
                 second_report, fs, written, args, exit_code>>

\* Lines 924-925: a second analyzer is built from the same source and
\* analyzes the type; line 960 catches what they raise.
MainReport(built, section_type) ==
  IF ~built.ok
  THEN built
  ELSE analyze_section_type(built.val.section_types, section_type)

MainAnalyzed(report) ==
  /\ outcome' = IF report.ok THEN "ok" ELSE report.exc
  /\ raised_in' = IF report.ok THEN "nowhere" ELSE "analyze_section_type"
  /\ analysis' = IF report.ok THEN report.val ELSE EmptyDict
  /\ pc' = IF report.ok THEN "analyzed" ELSE "exited"
  /\ exit_code' = IF report.ok THEN exit_code ELSE 1

MainAnalyze ==
  /\ pc = "constructed"
  /\ MainAnalyzed(MainReport(AnalyzerInit(config_file), args.type))
  /\ steps' = Append(steps, "analyze")
  /\ UNCHANGED <<config_file, analyzer, request, settings, schema, bundle,
                 second_report, fs, written, args>>

\* Line 947 is reached only when generate_section has returned.
SaveAfter(done, files, section_name) ==
  IF done.result.ok
  THEN save_section(files, done.result.val, section_name)
  ELSE [result |-> done.result, files |-> files, written |-> <<>>]

\* Lines 940-966: generate, save, and the exit code; line 960 catches what
\* either raises.
MainFinished(req, done, saved) ==
  /\ analyzer' = [analyzer EXCEPT !.section_types = done.section_types]
  /\ request' = req
  /\ outcome' = IF saved.result.ok THEN "ok" ELSE saved.result.exc
  /\ raised_in' = IF ~done.result.ok THEN done.raised_in
                  ELSE IF saved.result.ok THEN "nowhere" ELSE "save_section"
  /\ settings' = done.settings
  /\ schema' = done.schema
  /\ bundle' = IF done.result.ok THEN done.result.val ELSE EmptyDict
  /\ fs' = saved.files
  /\ written' = saved.written
  /\ steps' = IF done.result.ok
              THEN steps \o <<"generate", "save">>
              ELSE Append(steps, "generate")
  /\ exit_code' = IF saved.result.ok THEN 0 ELSE 1

MainGenerated(req, done) ==
  MainFinished(req, done, SaveAfter(done, fs, args.name))

MainGenerateAndSave ==
  /\ pc = "analyzed"
  /\ MainGenerated(GenerateRequest(args.name, args.type, args.description,
                                   args.advanced),
                   generate_section(analyzer.section_types,
                                    GenerateRequest(args.name, args.type,
                                                    args.description,
                                                    args.advanced)))
  /\ pc' = "exited"
  /\ UNCHANGED <<config_file, analysis, second_report, args>>

MainInit ==
  /\ config_file \in MainConfigFiles
  /\ fs \in FileSystems
  /\ args \in CliArgs
  /\ Fresh

MainNext ==
  \/ MainValidate
  \/ MainConstruct
  \/ MainAnalyze
  \/ MainGenerateAndSave

MainSpec == MainInit /\ [][MainNext]_vars

\* Sessions of callers of save_section, on every state of the theme path.
SaveInit ==
  /\ config_file \in ConfigFiles
  /\ config_file.state = "json" => config_file.doc \in MalformedDocs
  /\ fs \in FileSystems
  /\ args = NoArgs
  /\ Fresh

SaveNext ==
  \/ Construct
  \/ \E b \in Bundles, n \in SectionNames : SaveSection(b, n)
  \/ Return

SaveSpec == SaveInit /\ [][SaveNext]_vars

(***************************************************************************)
(* Properties                                                              *)
(***************************************************************************)
AnalyzeReturned == pc = "returned" /\ request.op = "analyze"

GenerateReturned == pc = "returned" /\ request.op = "generate"

\* A report came back from the analyzer, to the caller or inside generate.
HasReport == pc = "returned" /\ raised_in # "analyze_section_type"

InCatalog(section_type) ==
  /\ analyzer.section_types.py = "dict"
  /\ section_type \in DOMAIN analyzer.section_types.items

Ids(descriptors) == [i \in DOMAIN descriptors |-> descriptors[i]["id"]]

Elems(seq) == { seq[i] : i \in DOMAIN seq }

\* C1: generate_section returns a bundle for every type and every
\* well-formed request; no call ends in a failure.
C1_GenerateNeverFails ==
  GenerateReturned =>
    /\ outcome = "ok"
    /\ DOMAIN bundle = {"liquid_content", "css_content", "js_content"}

\* C2: for a type absent from the catalog the report's organized settings
\* hold one essential descriptor (heading), two recommended descriptors
\* (background_color, text_color, in that order) and one advanced descriptor
\* (animation); the suggested-block list is empty and the score is 25.
C2_GenericReportOrganized ==
  (AnalyzeReturned /\ outcome = "ok" /\ ~InCatalog(request.type)) =>
    /\ Ids(analysis["intelligent_settings"].essential) = <<S_heading>>
    /\ Ids(analysis["intelligent_settings"].recommended)
         = <<S_background_color, S_text_color>>
    /\ Ids(analysis["intelligent_settings"].advanced) = <<S_animation>>
    /\ Len(analysis["suggestedBlocks"]) = 0
    /\ analysis["intelligence_score"] = 25

\* C3: every report, for a cataloged type or not, carries a suggested
\* settings list equal to its organized essential list followed by its
\* organized recommended list, holding no descriptor of the advanced list.
C3_SuggestedIsEssentialThenRecommended ==
  (AnalyzeReturned /\ outcome = "ok") =>
    /\ "suggested_settings" \in DOMAIN analysis
    /\ analysis["suggested_settings"]
         = analysis["intelligent_settings"].essential
             \o analysis["intelligent_settings"].recommended
    /\ Elems(analysis["suggested_settings"])
         \cap Elems(analysis["intelligent_settings"].advanced) = {}

\* C4: with use_advanced false the schema's settings list holds no
\* descriptor whose category is advanced, for every catalog and type.
C4_NoAdvancedWhenNotRequested ==
  (GenerateReturned /\ HasReport /\ ~request.use_advanced) =>
    \A i \in DOMAIN schema["settings"] :
      schema["settings"][i]["category"] # "advanced"

\* C5: with use_advanced true and a report that has at least one advanced
\* descriptor, the schema's settings list holds a descriptor whose category
\* is advanced.
C5_AdvancedWhenRequested ==
  (/\ GenerateReturned /\ HasReport /\ request.use_advanced
   /\ Len(analysis["intelligent_settings"].advanced) > 0) =>
    \E i \in DOMAIN schema["settings"] :
      schema["settings"][i]["category"] = "advanced"

ClaimedTemplate(section_type) ==
  CASE section_type = Hero -> MethodText["_generate_hero_template"]
    [] section_type = Features -> MethodText["_generate_features_template"]
    [] OTHER -> MethodText["_generate_generic_template"]

ClaimedCss(section_type) ==
  CASE section_type = Hero -> MethodText["_generate_hero_css"]
    [] section_type = Features -> MethodText["_generate_features_css"]
    [] OTHER -> MethodText["_generate_generic_css"]

ClaimedJs(section_type) ==
  CASE section_type = Hero -> MethodText["_generate_hero_js"]
    [] OTHER -> MethodText["_generate_generic_js"]

\* C6: each artifact comes from its own type-keyed table with a generic
\* fallback: an unrecognized type gets the generic template body, stylesheet
\* and script, a recognized type its own template body and stylesheet, and
\* features the generic script beside its own template body and stylesheet.
C6_DispatchWithGenericFallback ==
  (GenerateReturned /\ HasReport) =>
    /\ outcome = "ok"
    /\ bundle["liquid_content"].template_content = ClaimedTemplate(request.type)
    /\ bundle["css_content"] = ClaimedCss(request.type)
    /\ bundle["js_content"] = ClaimedJs(request.type)

\* The source is missing, does not parse, or parses to something other than
\* a mapping with a sectionTypes mapping.
SourceUnusable ==
  \/ config_file.state # "json"
  \/ config_file.doc.py # "dict"
  \/ "sectionTypes" \notin DOMAIN config_file.doc.items
  \/ config_file.doc.items["sectionTypes"].py # "dict"

\* C7: loading never aborts: with a missing or malformed source the
\* construction completes with an empty catalog and every later analyze call
\* takes the generic path.
C7_LoadNeverAborts ==
  (pc # "start" /\ SourceUnusable) =>
    /\ pc # "aborted"
    /\ analyzer.section_types = PyDict(EmptyDict)
    /\ AnalyzeReturned =>
         outcome = "ok" /\ analysis = _get_generic_config(request.type)

DerivedLabel(id) == Title(ReplaceUnderscore(id))

\* C8: analyze never fails, whatever the type and the loaded catalog, also
\* when raw specifications omit id, label, type or default; a missing label
\* is derived from the id (separators to spaces, title-cased).
C8_AnalyzeNeverFails ==
  (AnalyzeReturned /\ analyzer.section_types.py = "dict") =>
    /\ outcome = "ok"
    /\ InCatalog(request.type) =>
         \A tier \in {"essential", "recommended", "advanced"} :
           \A i \in DOMAIN analysis["intelligent_settings"][tier] :
             LET raw == Get(analysis, tier \o "Settings", <<>>)[i]
                 descriptor == analysis["intelligent_settings"][tier][i]
             IN "label" \notin DOMAIN raw =>
                  descriptor["label"] = DerivedLabel(descriptor["id"])

ConfigBuilt == GenerateReturned /\ HasReport

PresetMap == schema["presets"][1].settings

NonNullDefaults(working) ==
  { i \in DOMAIN working : working[i]["default"] # None }

C10_ScoreRange ==
  HasReport =>
    IF InCatalog(request.type)
    THEN analysis["intelligence_score"] \in 0..100
    ELSE analysis["intelligence_score"] = 25

\* A cataloged type whose profile earns every component of the score.
C10_Witness ==
  /\ AnalyzeReturned /\ outcome = "ok"
  /\ InCatalog(request.type)
  /\ analysis["intelligence_score"] = 100

Tiers == {"essential", "recommended", "advanced"}

\* C13: on the known-type path every normalized descriptor carries the tier
\* of the raw list it was built from (essentialSettings -> essential,
\* recommendedSettings -> recommended, advancedSettings -> advanced), whether
\* or not the raw specification has a category field.
C13_TierTagFollowsList ==
  (AnalyzeReturned /\ outcome = "ok" /\ InCatalog(request.type)) =>
    \A tier \in Tiers :
      \A i \in DOMAIN analysis["intelligent_settings"][tier] :
        analysis["intelligent_settings"][tier][i]["category"] = tier

Count(seq, x) == Cardinality({ i \in DOMAIN seq : seq[i] = x })

\* C14: schema assembly loses nothing and orders by tier: every descriptor
\* of the working set occurs in the schema's settings list as many times as
\* in the working set, every descriptor tagged essential or recommended
\* precedes every descriptor tagged advanced, and no advanced descriptor of
\* the working set is omitted.
C14_SchemaKeepsAndOrders ==
  ConfigBuilt =>
    /\ \A i \in DOMAIN settings :
         Count(schema["settings"], settings[i]) = Count(settings, settings[i])
    /\ \A i, j \in DOMAIN schema["settings"] :
         (/\ schema["settings"][i]["category"] \in {"essential", "recommended"}
          /\ schema["settings"][j]["category"] = "advanced") => i < j
    /\ \A i \in DOMAIN settings :
         settings[i]["category"] = "advanced"
           => settings[i] \in Elems(schema["settings"])

CatalogEntry == analyzer.section_types.items[request.type]

Points(list, points) == IF Len(list) > 0 THEN points ELSE 0

\* The score as the rule states it, from the five lists of a profile.
RuleScore(profile) ==
  Points(Get(profile, "essentialSettings", <<>>), 30)
    + Points(Get(profile, "recommendedSettings", <<>>), 25)
    + Min(5 * Len(Get(profile, "advancedSettings", <<>>)), 20)
    + Points(Get(profile, "suggestedBlocks", <<>>), 15)
    + Points(Get(profile, "commonUseCases", <<>>), 10)

AllListsEmpty(profile) ==
  \A k \in {"essentialSettings", "recommendedSettings", "advancedSettings",
             "suggestedBlocks", "commonUseCases"} :
    Len(Get(profile, k, <<>>)) = 0

AllListsFilled(profile) ==
  /\ \A k \in {"essentialSettings", "recommendedSettings",
                "suggestedBlocks", "commonUseCases"} :
       Len(Get(profile, k, <<>>)) > 0
  /\ Len(Get(profile, "advancedSettings", <<>>)) >= 4

\* C15: on the known-type path the score is 30 for a non-empty essential
\* list, plus 25 for a non-empty recommended list, plus min(5 x number of
\* advanced settings, 20), plus 15 for a non-empty suggested-blocks list,
\* plus 10 for a non-empty common-use-cases list; all five lists empty give
\* 0, all lists non-empty with at least four advanced settings give 100.
C15_ScoreRule ==
  (AnalyzeReturned /\ outcome = "ok" /\ InCatalog(request.type)) =>
    /\ analysis["intelligence_score"] = RuleScore(CatalogEntry)
    /\ AllListsEmpty(CatalogEntry) => analysis["intelligence_score"] = 0
    /\ AllListsFilled(CatalogEntry) => analysis["intelligence_score"] = 100

\* A cataloged profile with more advanced settings than the cap pays for and
\* some other list empty.
C15_Witness ==
  /\ AnalyzeReturned /\ outcome = "ok"
  /\ InCatalog(request.type)
  /\ Len(Get(CatalogEntry, "advancedSettings", <<>>)) > 4
  /\ ~AllListsFilled(CatalogEntry)
  /\ analysis["intelligence_score"] > 20

\* C16: for every report, of a cataloged type or synthesized, the working
\* set built by generate is the report's organized essential list, then its
\* recommended list, then its advanced list when use_advanced is true, and
\* the essential list then the recommended list only when it is false.
C16_WorkingSetByTier ==
  ConfigBuilt =>
    settings = IF request.use_advanced
               THEN analysis["intelligent_settings"].essential
                      \o analysis["intelligent_settings"].recommended
                      \o analysis["intelligent_settings"].advanced
               ELSE analysis["intelligent_settings"].essential
                      \o analysis["intelligent_settings"].recommended

\* A generate call without advanced settings on a report that has
\* descriptors in its essential and in its advanced list.
C16_Witness ==
  /\ ConfigBuilt
  /\ ~request.use_advanced
  /\ Len(analysis["intelligent_settings"].essential) > 0
  /\ Len(analysis["intelligent_settings"].advanced) > 0

\* The analyzer as its constructor left it, and the report analyze gives on
\* the catalog as loaded, which is the report of the first call for a type.
LoadedAnalyzer == AnalyzerInit(config_file).val

FirstReport(section_type) ==
  analyze_section_type(LoadedAnalyzer.section_types, section_type).val

SaveReturned == pc = "returned" /\ request.op = "save"

\* C17: save on any bundle and any theme path, whether or not the theme
\* path or its sections directory exists already, ends with the sections
\* directory present under the theme path and holding the template file and
\* the stylesheet file for the name; the script file is written if and only
\* if the bundle's behavior script is non-empty.
C17_SaveCreatesAndWrites ==
  SaveReturned =>
    /\ outcome = "ok"
    /\ fs.theme_path /\ fs.sections_dir
    /\ request.name \o S_DotLiquid \in DOMAIN fs.sections
    /\ request.name \o S_DotCss \in DOMAIN fs.sections
    /\ (request.name \o S_DotJs \in Elems(written))
         <=> bundle["js_content"] # ""

\* The fixed eight-type enumeration of the command surface.
EightTypes ==
  { <<"h","e","r","o">>, <<"f","e","a","t","u","r","e","s">>,
    <<"t","e","s","t","i","m","o","n","i","a","l","s">>,
    <<"g","a","l","l","e","r","y">>, <<"c","t","a">>,
    <<"c","o","n","t","a","c","t">>,
    <<"n","e","w","s","l","e","t","t","e","r">>, <<"s","t","a","t","s">> }

MainOrder == <<"validate", "construct", "analyze", "generate", "save">>

Terminated == pc \in {"exited", "crashed"}

\* C12: main exits with code 0 exactly when analysis, generation and saving
\* all complete for a type of the eight-type enumeration; it exits with
\* code 1 when the type is outside the enumeration and when anything fails
\* during analysis, generation or saving; it never ends with an unhandled
\* fault.
C12_ExitCodes ==
  Terminated =>
    /\ pc = "exited"
    /\ exit_code = IF /\ args.type \in EightTypes
                      /\ steps = MainOrder
                      /\ outcome = "ok"
                   THEN 0 ELSE 1

IsPrefix(s, t) == Len(s) <= Len(t) /\ s = SubSeq(t, 1, Len(s))

\* C18: the steps of a run of main are ordered validate, (construct,)
\* analyze, generate, save: with a type outside the eight-type enumeration
\* no catalog is loaded and nothing after validation is invoked; save is
\* invoked only after generate has returned a bundle; a run that has not
\* reached save creates no directory and writes no file.
C18_StepOrder ==
  [][ /\ IsPrefix(steps', MainOrder)
      /\ args.type \notin EightTypes
           => (steps' = <<"validate">> /\ analyzer' = EmptyDict)
      /\ "save" \in Elems(steps') => bundle' # EmptyDict
      /\ "save" \notin Elems(steps') => (fs' = fs /\ written' = <<>>) ]_vars

\* A run for a type of the enumeration that failed in generation, on a
\* theme path without a sections directory: it exits with 1 and has created
\* nothing.
C18_Witness ==
  /\ pc = "exited"
  /\ steps = <<"validate", "construct", "analyze", "generate">>
  /\ exit_code = 1
  /\ fs.theme_path /\ ~fs.sections_dir

====
